---- MODULE Spec2Model ----
(***************************************************************************)
(* A state-machine model of violet/runner.py: the Scope tree (vars,        *)
(* const_vars, parent), the Runner (scope registry, active scope), the two *)
(* statement dispatchers, the import protocol, the return state kept on    *)
(* Function objects, and the mapping of failures to exit statuses in       *)
(* Runner.run.  A program is an arbitrary sequence of statements: every    *)
(* action executes one statement, chosen from small input sets.            *)
(***************************************************************************)
EXTENDS Integers, Sequences, FiniteSets, TLC

(* ------------------------------ bounds --------------------------------- *)
\* number of Scope objects one run may create (the root included)
MaxScopes == 4
\* number of top-level statements of the module body
MaxModuleLen == 2
\* number of function-body statements one run executes (Runner.lineno)
MaxLineno == 3
\* number of names one import statement requests
MaxImport == 2
\* the same three bounds for the programs of calls and returns
MaxCallScopes == 5
MaxCallModuleLen == 2
MaxCallLineno == 4

(* ------------------------------ values --------------------------------- *)
\* A runtime value: the class of the Python object and an abstract payload.
Val(c, p) == [cls |-> c, v |-> p]

\* objects.Void, objects.List, ... as class objects
TypeObj(n) == Val("type", n)

\* _STD_TYPES: built-in type name -> class
STD_TYPES ==
    [nil |-> TypeObj(0), List |-> TypeObj(1), String |-> TypeObj(2),
     Void |-> TypeObj(0), Integer |-> TypeObj(3), Boolean |-> TypeObj(4)]

\* the Function objects of a program: 1 is 'main', 2 is 'f'
FuncIds == {1, 2}
FuncName == <<"main", "f">>
FuncVal(i) == Val("Function", i)

\* literals a program's expressions evaluate to
LitValues == {Val("Integer", 1), Val("Integer", 2), Val("String", 1)}

\* the argument vector Runner.run builds for main
Argv == Val("List", 1)

\* the scope the interpreter starts in (Runner.global_scope)
global_scope == 0
NoParent == -1

\* Python's None
NoneVal == Val("None", 0)

\* the empty dict
EmptyMap == [n \in {} |-> Val("Void", 0)]

\* d[k] = v on a dict
Put(d, k, v) == [n \in (DOMAIN d) \cup {k} |-> IF n = k THEN v ELSE d[n]]

VARIABLES
    phase,          \* where Runner.run is: "module", "main", "done", "exit"
    exit_status,    \* the status given to sys.exit (-1: none, 0 on completion)
    scopes,         \* Runner.scopes: the keys of the registry
    parent,         \* Scope.parent of every created scope
    vars,           \* Scope.vars of every created scope
    const_vars,     \* Scope.const_vars of every created scope
    active_scope,   \* Runner.active_scope
    pc,             \* index of the next statement of the module body
    lineno,         \* Runner.lineno
    stack,          \* the pending new_scope / function invocations
    return_flag,    \* Function._return_flag of every Function object
    fn_return,      \* Function._return of every Function object
    return_type,    \* Function.return_type of every Function object
    panic_base,     \* the base class errors.Panic is declared with
    last            \* the statement executed last and the exception it raised

vars_all ==
    <<phase, exit_status, scopes, parent, vars, const_vars, active_scope, pc,
      lineno, stack, return_flag, fn_return, return_type, panic_base, last>>

(* ------------------------------ Scope ---------------------------------- *)
\* the names a program's statements use
DeclNames == {"x", "Integer"}
ImportNames == {"x", "y"}
AllNames == DeclNames \cup ImportNames \cup {"main", "f", "argv"}

\* the exception get_var ends with when no scope of the chain binds the name
NotFound == Val("VarNotFound", 0)

\* is_var_assigned without line 66: the built-in type names are not consulted
RECURSIVE is_var_assigned_no_builtins(_, _, _)
is_var_assigned_no_builtins(s, identifier, recurse) ==
    \/ identifier \in DOMAIN vars[s]
    \/ identifier \in DOMAIN const_vars[s]
    \/ recurse /\ parent[s] # NoParent
               /\ is_var_assigned_no_builtins(parent[s], identifier, TRUE)

\* Scope.is_var_assigned
RECURSIVE is_var_assigned(_, _, _)
is_var_assigned(s, identifier, recurse) ==
    \/ identifier \in DOMAIN vars[s]
    \/ identifier \in DOMAIN const_vars[s]
    \/ identifier \in DOMAIN STD_TYPES
    \/ recurse /\ parent[s] # NoParent /\ is_var_assigned(parent[s], identifier, TRUE)

\* get_var without line 86: a miss is not passed on to the parent
get_var_local(s, identifier) ==
    IF identifier \in DOMAIN STD_TYPES THEN STD_TYPES[identifier]
    ELSE IF identifier \in DOMAIN vars[s] THEN vars[s][identifier]
    ELSE IF identifier \in DOMAIN const_vars[s] THEN const_vars[s][identifier]
    ELSE NotFound

\* Scope.get_var: the value, or NotFound where the code raises VarNotFound
RECURSIVE get_var(_, _)
get_var(s, identifier) ==
    IF identifier \in DOMAIN STD_TYPES THEN STD_TYPES[identifier]
    ELSE IF identifier \in DOMAIN vars[s] THEN vars[s][identifier]
    ELSE IF identifier \in DOMAIN const_vars[s] THEN const_vars[s][identifier]
    ELSE IF parent[s] = NoParent THEN NotFound
    ELSE get_var(parent[s], identifier)

\* TypeId.type_check / return_type.type_check: the value's class is the named type
type_check(typename, value) == value.cls = typename

\* Scope.reassign_var: the exception raised ("none": no exception) and vars afterwards
reassign_var(s, identifier, value) ==
    IF identifier \in DOMAIN const_vars[s]
    THEN [err |-> "CannotReassignConst", vars |-> vars]
    ELSE IF identifier \notin DOMAIN vars[s]
    THEN [err |-> "KeyError", vars |-> vars]
    ELSE IF ~type_check(vars[s][identifier].cls, value)
    THEN [err |-> "TypeMismatch", vars |-> vars]
    ELSE [err |-> "none", vars |-> [vars EXCEPT ![s] = Put(@, identifier, value)]]

\* instances of objects.Object or objects.ThinPythonObjectWrapper
IsObject(value) ==
    value.cls \in {"Integer", "String", "List", "Void", "Function", "ThinPythonObjectWrapper"}

\* objects.ThinPythonObjectWrapper(value)
Wrap(value) == Val("ThinPythonObjectWrapper", value.v)

\* both dicts of every scope, as a statement finds them
Env == [vars |-> vars, const_vars |-> const_vars]

\* Scope.set_var on the dicts env: the dicts afterwards (it raises nothing)
set_var(env, s, identifier, value, const) ==
    LET w == IF IsObject(value) THEN value ELSE Wrap(value)
    IN  IF const
        THEN [vars |-> env.vars,
              const_vars |-> [env.const_vars EXCEPT ![s] = Put(@, identifier, w)]]
        ELSE [vars |-> [env.vars EXCEPT ![s] = Put(@, identifier, w)],
              const_vars |-> env.const_vars]

(* --------------------------- expressions ------------------------------- *)
Lit(value) == [k |-> "lit", val |-> value, name |-> ""]
Ref(n) == [k |-> "ref", val |-> NotFound, name |-> n]
\* an expression whose evaluation hits an internal engine error
PanicExpr == [k |-> "panic", val |-> NotFound, name |-> ""]

\* expression.eval(runner): the exception raised and the value
Eval(expr) ==
    IF expr.k = "lit" THEN [err |-> "none", val |-> expr.val]
    ELSE IF expr.k = "panic" THEN [err |-> "Panic", val |-> NotFound]
    ELSE LET r == get_var(active_scope, expr.name)
         IN  [err |-> IF r = NotFound THEN "VarNotFound" ELSE "none", val |-> r]

\* whether `except Exception` catches the exception
IsException(e) ==
    /\ e \notin {"SystemExit1", "SystemExit9"}
    /\ ~(e = "Panic" /\ panic_base = "BaseException")

\* the outcome of a statement: the exception, whether it leaves the executor
\* as a StatementError, and both dicts afterwards
Outcome(e, se, env) ==
    [err |-> e, stmt_error |-> se, vars |-> env.vars, const_vars |-> env.const_vars]

\* type annotations a declaration may carry ("None": no annotation)
TypeIds == {"None", "Integer", "String"}

\* _exec_assignment without the redirection of line 305: a declaration with
\* the global modifier binds in the current scope
exec_assignment_current_scope(identifier, expr, typ, const, glob, reassign) ==
    LET scope == active_scope
        ev == Eval(expr)
    IN  IF ev.err # "none" THEN Outcome(ev.err, IsException(ev.err), Env)
        ELSE IF reassign
        THEN IF ~is_var_assigned(scope, identifier, TRUE)
             THEN Outcome("NotDefined", TRUE, Env)
             ELSE LET r == reassign_var(scope, identifier, ev.val)
                  IN  Outcome(r.err, r.err # "none",
                              [vars |-> r.vars, const_vars |-> const_vars])
        ELSE IF typ # "None" /\ ~type_check(typ, ev.val)
        THEN Outcome("TypeMismatch", FALSE, Env)
        ELSE Outcome("none", FALSE, set_var(Env, scope, identifier, ev.val, const))

\* Runner._exec_assignment
exec_assignment(identifier, expr, typ, const, glob, reassign) ==
    LET scope == IF ~reassign /\ glob THEN global_scope ELSE active_scope
        ev == Eval(expr)
    IN  IF ev.err # "none" THEN Outcome(ev.err, IsException(ev.err), Env)
        ELSE IF reassign
        THEN IF ~is_var_assigned(scope, identifier, TRUE)
             THEN Outcome("NotDefined", TRUE, Env)
             ELSE LET r == reassign_var(scope, identifier, ev.val)
                  IN  Outcome(r.err, r.err # "none",
                              [vars |-> r.vars, const_vars |-> const_vars])
        ELSE IF typ # "None" /\ ~type_check(typ, ev.val)
        THEN Outcome("TypeMismatch", FALSE, Env)
        ELSE Outcome("none", FALSE, set_var(Env, scope, identifier, ev.val, const))

(* ------------------------------ imports -------------------------------- *)
\* the lists of names an import statement requests
ImportLists == UNION {[1 .. n -> ImportNames] : n \in 1 .. MaxImport}

\* the modules importlib finds under violet.std, each with its attributes
StdModules == [io |-> [x |-> Val("py", 7)]]
ModuleNames == {"io", "nope"}

\* the for loop of Runner._exec_std_import over importing[i..], on the dicts env
RECURSIVE std_import_from(_, _, _, _)
std_import_from(env, module, importing, i) ==
    IF i > Len(importing) THEN Outcome("none", FALSE, env)
    ELSE IF importing[i] \notin DOMAIN module
    THEN Outcome("ImportError", TRUE, env)
    ELSE std_import_from(set_var(env, active_scope, importing[i],
                                 module[importing[i]], FALSE),
                         module, importing, i + 1)

\* Runner._exec_std_import
exec_std_import(name, importing) ==
    IF name \notin DOMAIN StdModules THEN Outcome("ImportError", TRUE, Env)
    ELSE std_import_from(Env, StdModules[name], importing, 1)

\* how Runner.open(file).run() ends: the file is missing, the nested run calls
\* sys.exit, or run returns (it has no return statement: the result is None)
SubRuns == {"FileNotFoundError", "SystemExit1", "SystemExit9", "returned"}

\* the root bindings the imported program ends with
SubRoots ==
    {EmptyMap, [n \in {"x"} |-> Val("Integer", 2)],
     [n \in {"x", "y"} |-> Val("Integer", 2)]}

\* Runner._exec_local_import; new is None when run returns, so the first
\* new.get_current_scope() raises AttributeError, which line 298 catches
exec_local_import(importing, subrun, subroot) ==
    IF subrun = "FileNotFoundError" THEN Outcome("ImportError", TRUE, Env)
    ELSE IF subrun # "returned" THEN Outcome(subrun, FALSE, Env)
    ELSE IF Len(importing) = 0 THEN Outcome("none", FALSE, Env)
    ELSE Outcome("AttributeError", TRUE, Env)

(* ------------------------- top-level statements ------------------------ *)
Last(op, identifier, e, surfaced) ==
    [op |-> op, id |-> identifier, err |-> e, surfaced |-> surfaced, val |-> NoneVal]

\* the exception class that leaves exec_module_body (lines 230-233)
ModuleSurfaced(e) ==
    IF e = "none" THEN "none" ELSE IF IsException(e) THEN "StatementError" ELSE e

\* the except clauses of Runner.run around exec_module (lines 146-156)
ModuleExit(surfaced) ==
    IF surfaced = "Panic" THEN 9
    ELSE IF surfaced = "SystemExit9" THEN 9
    ELSE 1

\* one iteration of the loop of exec_module_body with the outcome out
ModuleStatement(op, identifier, out) ==
    /\ vars' = out.vars
    /\ const_vars' = out.const_vars
    /\ last' = Last(op, identifier, out.err, ModuleSurfaced(out.err))
    /\ IF out.err = "none"
       THEN pc' = pc + 1 /\ UNCHANGED <<phase, exit_status>>
       ELSE /\ phase' = "exit"
            /\ exit_status' = ModuleExit(ModuleSurfaced(out.err))
            /\ pc' = pc
    /\ UNCHANGED <<scopes, parent, active_scope, lineno, stack, return_flag,
                   fn_return, return_type, panic_base>>

AtModule == phase = "module"

\* import ... from std.<name>
ModuleStdImport(name, importing) ==
    /\ AtModule
    /\ ModuleStatement("std_import", importing[1], exec_std_import(name, importing))

\* import ... from <file>
ModuleLocalImport(importing, subrun, subroot) ==
    /\ AtModule
    /\ ModuleStatement("local_import", importing[1],
                       exec_local_import(importing, subrun, subroot))

\* import ... from a dotted path that does not start with std: _exec_import
\* returns without importing anything (lines 261-264)
ModuleOtherImport ==
    /\ AtModule
    /\ ModuleStatement("other_import", "", Outcome("none", FALSE, Env))

ModuleAssignment(identifier, expr, typ, const, glob) ==
    /\ AtModule
    /\ ModuleStatement("assignment", identifier,
                       exec_assignment(identifier, expr, typ, const, glob, FALSE))

ModuleReassignment(identifier, expr) ==
    /\ AtModule
    /\ ModuleStatement("reassignment", identifier,
                       exec_assignment(identifier, expr, "None", FALSE, FALSE, TRUE))

\* a statement exec_module_body does not accept (line 229)
ModuleUnexpected ==
    /\ AtModule
    /\ ModuleStatement("unexpected", "", Outcome("StatementError", TRUE, Env))

\* declared return types of a function ("None": inferred at the first return)
ReturnTypes == {"None", "Integer"}

\* Runner._exec_function_spawn: a new Function object is bound to its name
ModuleFunction(i, rtype) ==
    /\ AtModule
    /\ i \notin DOMAIN return_flag
    /\ LET env == set_var(Env, active_scope, FuncName[i], FuncVal(i), FALSE)
       IN  /\ vars' = env.vars
           /\ const_vars' = env.const_vars
    /\ return_flag' = Put(return_flag, i, FALSE)
    /\ fn_return' = Put(fn_return, i, NoneVal)
    /\ return_type' = Put(return_type, i, rtype)
    /\ pc' = pc + 1
    /\ last' = Last("function", FuncName[i], "none", "none")
    /\ UNCHANGED <<phase, exit_status, scopes, parent, active_scope, lineno,
                   stack, panic_base>>

(* ------------------------- scopes and calls ---------------------------- *)
\* the key of the Scope the next new_scope creates (Scope.hash, always fresh)
NewScope == Cardinality(scopes)

Frame(f, old) == [func |-> f, old |-> old, returned |-> FALSE]

\* the frame Runner.run's own `with self.new_scope()` leaves pending
RunFrame == 0

\* formal parameters of the Function objects
Params == <<<<"argv">>, <<>>>>

\* new_scope with the root scope, not the current scope, as the parent
new_scope_root_parent(f) ==
    LET k == NewScope
    IN  /\ scopes' = scopes \cup {k}
        /\ parent' = Put(parent, k, global_scope)
        /\ const_vars' = Put(const_vars, k, EmptyMap)
        /\ active_scope' = k
        /\ stack' = Append(stack, Frame(f, active_scope))

\* Runner.new_scope up to the yield (lines 202-208)
new_scope(f) ==
    LET k == NewScope
    IN  /\ scopes' = scopes \cup {k}
        /\ parent' = Put(parent, k, active_scope)
        /\ const_vars' = Put(const_vars, k, EmptyMap)
        /\ active_scope' = k
        /\ stack' = Append(stack, Frame(f, active_scope))

\* Function.__call__ up to the start of the body: a scope whose parent is the
\* caller's active scope, the parameters bound in it, fresh return state
CallEnter(i, args) ==
    LET bound == [n \in {Params[i][j] : j \in 1 .. Len(Params[i])} |->
                    args[CHOOSE j \in 1 .. Len(Params[i]) : Params[i][j] = n]]
    IN  /\ new_scope(i)
        /\ vars' = Put(vars, NewScope, bound)
        /\ return_flag' = [return_flag EXCEPT ![i] = FALSE]
        /\ fn_return' = [fn_return EXCEPT ![i] = NoneVal]

\* Runner.run with the new_scope of line 186 entered before the lookup of
\* main: a scope is created although the run ends for a missing entry point
EndModule_scope_first ==
    /\ phase = "module"
    /\ new_scope(RunFrame)
    /\ vars' = Put(vars, NewScope, EmptyMap)
    /\ IF get_var(active_scope, "main") = NotFound
       THEN /\ phase' = "exit"
            /\ exit_status' = 1
            /\ last' = Last("entry", "main", "VarNotFound", "VarNotFound")
       ELSE /\ phase' = "main"
            /\ last' = Last("entry", "main", "none", "none")
            /\ UNCHANGED exit_status
    /\ UNCHANGED <<pc, lineno, return_flag, fn_return, return_type, panic_base>>

\* the end of exec_module_body's loop, then Runner.run up to the call of main
\* (lines 164-186)
EndModule ==
    /\ phase = "module"
    /\ IF get_var(active_scope, "main") = NotFound
       THEN /\ phase' = "exit"
            /\ exit_status' = 1
            /\ last' = Last("entry", "main", "VarNotFound", "VarNotFound")
            /\ UNCHANGED <<scopes, parent, vars, const_vars, active_scope, stack>>
       ELSE /\ phase' = "main"
            /\ new_scope(RunFrame)
            /\ vars' = Put(vars, NewScope, EmptyMap)
            /\ last' = Last("entry", "main", "none", "none")
            /\ UNCHANGED exit_status
    /\ UNCHANGED <<pc, lineno, return_flag, fn_return, return_type, panic_base>>

\* the function whose body is running, RunFrame when none is
Top == stack[Len(stack)]
Running == Top.func

\* main([argv], runner=self) (line 187)
CallMain ==
    /\ phase = "main"
    /\ Running = RunFrame
    /\ CallEnter(get_var(active_scope, "main").v, <<Argv>>)
    /\ last' = Last("call", "main", "none", "none")
    /\ UNCHANGED <<phase, exit_status, pc, lineno, return_type, panic_base>>

\* the loop head of exec_function_body without the test of lines 238-239
AtBody_ignores_flag ==
    /\ phase = "main"
    /\ Running # RunFrame

\* a function body can run a statement: the loop of exec_function_body has not
\* seen the return flag (lines 236-240)
AtBody ==
    /\ phase = "main"
    /\ Running # RunFrame
    /\ ~return_flag[Running]

\* an exception leaves the function bodies: every pending new_scope restores
\* its old scope, and the except clauses of Runner.run end the run (188-197)
BodyRaise(op, identifier, e, se) ==
    /\ phase' = "exit"
    /\ exit_status' = 1
    /\ active_scope' = stack[1].old
    /\ stack' = <<>>
    /\ last' = Last(op, identifier, e, IF se THEN "StatementError" ELSE e)

\* one iteration of the loop of exec_function_body over an assignment or a
\* reassignment with the outcome out
BodyStatement(op, identifier, out) ==
    /\ lineno' = lineno + 1
    /\ vars' = out.vars
    /\ const_vars' = out.const_vars
    /\ IF out.err = "none"
       THEN /\ last' = Last(op, identifier, "none", "none")
            /\ UNCHANGED <<phase, exit_status, active_scope, stack>>
       ELSE BodyRaise(op, identifier, out.err, out.stmt_error)
    /\ UNCHANGED <<scopes, parent, pc, return_flag, fn_return, return_type,
                   panic_base>>

BodyAssignment(identifier, expr, typ, const, glob) ==
    /\ AtBody
    /\ BodyStatement("assignment", identifier,
                     exec_assignment(identifier, expr, typ, const, glob, FALSE))

BodyReassignment(identifier, expr) ==
    /\ AtBody
    /\ BodyStatement("reassignment", identifier,
                     exec_assignment(identifier, expr, "None", FALSE, FALSE, TRUE))

\* a statement exec_function_body does not accept (line 254)
BodyUnexpected ==
    /\ AtBody
    /\ BodyStatement("unexpected", "", Outcome("StatementError", TRUE, Env))

\* a return statement without an expression
NoExpr == [k |-> "none", val |-> NotFound, name |-> ""]

\* _exec_return with lines 339 and 340 exchanged: func._return is written
\* before the value is checked against the return type
exec_return_late_check(f, expr) ==
    LET ev == Eval(expr)
        same == [err |-> "none", ret |-> fn_return[f], rtype |-> return_type[f]]
    IN  IF expr = NoExpr THEN [same EXCEPT !.err = "NameError"]
        ELSE IF ev.err # "none" THEN [same EXCEPT !.err = ev.err]
        ELSE IF return_type[f] = "None"
        THEN IF ev.val.cls \in {"ThinPythonObjectWrapper", "type"}
             THEN [same EXCEPT !.err = "KeyError"]
             ELSE [err |-> "none", ret |-> ev.val, rtype |-> ev.val.cls]
        ELSE IF ~type_check(return_type[f], ev.val)
        THEN [err |-> "TypeMismatch", ret |-> ev.val, rtype |-> return_type[f]]
        ELSE [err |-> "none", ret |-> ev.val, rtype |-> return_type[f]]

\* Runner._exec_return: the exception raised, and func._return and
\* func.return_type afterwards
exec_return(f, expr) ==
    LET ev == Eval(expr)
        same == [err |-> "none", ret |-> fn_return[f], rtype |-> return_type[f]]
    IN  IF expr = NoExpr THEN [same EXCEPT !.err = "NameError"]
        ELSE IF ev.err # "none" THEN [same EXCEPT !.err = ev.err]
        ELSE IF return_type[f] = "None"
        THEN IF ev.val.cls \in {"ThinPythonObjectWrapper", "type"}
             THEN [same EXCEPT !.err = "KeyError"]
             ELSE [err |-> "none", ret |-> ev.val, rtype |-> ev.val.cls]
        ELSE IF ~type_check(return_type[f], ev.val)
        THEN [same EXCEPT !.err = "TypeMismatch"]
        ELSE [err |-> "none", ret |-> ev.val, rtype |-> return_type[f]]

\* a return statement in the running body (lines 246-248)
BodyReturn(expr) ==
    /\ AtBody
    /\ lineno' = lineno + 1
    /\ LET f == Running
           r == exec_return(f, expr)
       IN  /\ fn_return' = [fn_return EXCEPT ![f] = r.ret]
           /\ return_type' = [return_type EXCEPT ![f] = r.rtype]
           /\ IF r.err = "none"
              THEN /\ return_flag' = [return_flag EXCEPT ![f] = TRUE]
                   /\ stack' = [stack EXCEPT ![Len(stack)].returned = TRUE]
                   /\ last' = [Last("return", FuncName[f], "none", "none")
                                 EXCEPT !.val = r.ret]
                   /\ UNCHANGED <<phase, exit_status, active_scope>>
              ELSE /\ BodyRaise("return", FuncName[f], r.err, FALSE)
                   /\ UNCHANGED return_flag
    /\ UNCHANGED <<scopes, parent, vars, const_vars, pc, panic_base>>

\* the names a call statement may call
CallNames == {"main", "f"}

\* a bare call statement (lines 249-250): FunctionCall.eval resolves the name
\* in the active scope and invokes the Function found
BodyCall(n) ==
    /\ AtBody
    /\ lineno' = lineno + 1
    /\ LET g == get_var(active_scope, n)
       IN  IF g = NotFound
           THEN /\ BodyRaise("call", n, "VarNotFound", FALSE)
                /\ UNCHANGED <<scopes, parent, vars, const_vars, return_flag,
                               fn_return>>
           ELSE /\ CallEnter(g.v, IF g.v = 1 THEN <<Argv>> ELSE <<>>)
                /\ last' = Last("call", n, "none", "none")
                /\ UNCHANGED <<phase, exit_status>>
    /\ UNCHANGED <<pc, return_type, panic_base>>

\* the end of a call with new_scope's finally clause (lines 211-213) left
\* out: the scope of the finished body stays the active one
ExitCall_keeps_scope ==
    /\ phase = "main"
    /\ Running # RunFrame
    /\ last' = [Last("exit_call", FuncName[Running], "none", "none")
                  EXCEPT !.val = fn_return[Running]]
    /\ IF Len(stack) = 2
       THEN /\ stack' = <<>>
            /\ phase' = "done"
            /\ exit_status' = 0
       ELSE /\ stack' = SubSeq(stack, 1, Len(stack) - 1)
            /\ UNCHANGED <<phase, exit_status>>
    /\ UNCHANGED <<scopes, parent, vars, const_vars, active_scope, pc, lineno,
                   return_flag, fn_return, return_type, panic_base>>

\* the body of the running function ends (the statements are exhausted, or the
\* loop breaks on the return flag): new_scope's finally restores the caller's
\* scope and Function.__call__ yields func._return; when main ends, so do the
\* with block of Runner.run and the run
ExitCall ==
    /\ phase = "main"
    /\ Running # RunFrame
    /\ last' = [Last("exit_call", FuncName[Running], "none", "none")
                  EXCEPT !.val = fn_return[Running]]
    /\ IF Len(stack) = 2
       THEN /\ active_scope' = stack[1].old
            /\ stack' = <<>>
            /\ phase' = "done"
            /\ exit_status' = 0
       ELSE /\ active_scope' = Top.old
            /\ stack' = SubSeq(stack, 1, Len(stack) - 1)
            /\ UNCHANGED <<phase, exit_status>>
    /\ UNCHANGED <<scopes, parent, vars, const_vars, pc, lineno, return_flag,
                   fn_return, return_type, panic_base>>

(* --------------------------- specification ----------------------------- *)
\* Runner.__init__ (lines 111-118) and Scope.__init__ (lines 50-56)
Init ==
    /\ phase = "module"
    /\ exit_status = -1
    /\ scopes = {global_scope}
    /\ parent = [s \in {global_scope} |-> NoParent]
    /\ vars = [s \in {global_scope} |-> EmptyMap]
    /\ const_vars = [s \in {global_scope} |-> EmptyMap]
    /\ active_scope = global_scope
    /\ pc = 0
    /\ lineno = 0
    /\ stack = <<>>
    /\ return_flag = [i \in {} |-> FALSE]
    /\ fn_return = [i \in {} |-> NoneVal]
    /\ return_type = [i \in {} |-> "None"]
    /\ panic_base \in {"Exception", "BaseException"}
    /\ last = Last("init", "", "none", "none")

(* The statements of a program are chosen freely; each specification below
   bounds the length of the module body, the number of body statements and
   the number of scopes, and draws the statements from the sets it names. *)
InModule == pc < MaxModuleLen
InBody == lineno < MaxLineno
CanCall == Cardinality(scopes) < MaxScopes

\* programs of declarations, reassignments and calls
ScopeExprs == {Lit(v) : v \in LitValues} \cup {Ref("x")}
InitScope == Init /\ panic_base = "Exception"
NextScope ==
    \/ InModule /\ \E e \in ScopeExprs, c \in BOOLEAN :
          ModuleAssignment("x", e, "None", c, FALSE)
    \/ InModule /\ \E e \in ScopeExprs : ModuleReassignment("x", e)
    \/ InModule /\ ModuleFunction(1, "None")
    \/ EndModule
    \/ CallMain
    \/ InBody /\ \E e \in ScopeExprs, c \in BOOLEAN, g \in BOOLEAN :
          BodyAssignment("x", e, "None", c, g)
    \/ InBody /\ \E c \in BOOLEAN, g \in BOOLEAN :
          BodyAssignment("Integer", Lit(Val("Integer", 1)), "None", c, g)
    \/ InBody /\ \E e \in ScopeExprs : BodyReassignment("x", e)
    \/ InBody /\ CanCall /\ BodyCall("main")
    \/ ExitCall
SpecScope == InitScope /\ [][NextScope]_vars_all

\* programs of imports
NextImport ==
    \/ InModule /\ \E m \in ModuleNames, l \in ImportLists : ModuleStdImport(m, l)
    \/ InModule /\ \E l \in ImportLists, r \in SubRuns, e \in SubRoots :
          ModuleLocalImport(l, r, e)
    \/ InModule /\ ModuleOtherImport
    \/ InModule /\ \E v \in LitValues, c \in BOOLEAN :
          ModuleAssignment("x", Lit(v), "None", c, FALSE)
    \/ InModule /\ ModuleFunction(1, "None")
    \/ EndModule
    \/ CallMain
    \/ ExitCall
SpecImport == InitScope /\ [][NextImport]_vars_all

\* programs of functions, calls and returns
ReturnExprs == {Lit(Val("Integer", 1)), Lit(Val("String", 1)), Ref("x"), NoExpr}
NextCall ==
    \/ pc < MaxCallModuleLen /\ \E i \in FuncIds, t \in ReturnTypes : ModuleFunction(i, t)
    \/ EndModule
    \/ CallMain
    \/ lineno < MaxCallLineno /\ \E e \in ReturnExprs : BodyReturn(e)
    \/ lineno < MaxCallLineno /\ Cardinality(scopes) < MaxCallScopes
          /\ \E n \in CallNames : BodyCall(n)
    \/ lineno < MaxCallLineno
          /\ BodyAssignment("x", Lit(Val("Integer", 1)), "None", FALSE, FALSE)
    \/ ExitCall
SpecCall == InitScope /\ [][NextCall]_vars_all

\* programs of every kind of statement, in which an expression may hit an
\* internal engine error
RunExprs == {Lit(Val("Integer", 1)), PanicExpr}
Next ==
    \/ InModule /\ \E e \in RunExprs, t \in TypeIds :
          ModuleAssignment("x", e, t, FALSE, FALSE)
    \/ InModule /\ \E e \in RunExprs : ModuleReassignment("x", e)
    \/ InModule /\ ModuleUnexpected
    \/ InModule /\ \E m \in ModuleNames, l \in ImportLists : ModuleStdImport(m, l)
    \/ InModule /\ \E l \in ImportLists, r \in SubRuns, e \in SubRoots :
          ModuleLocalImport(l, r, e)
    \/ InModule /\ ModuleOtherImport
    \/ InModule /\ \E i \in FuncIds : ModuleFunction(i, "None")
    \/ EndModule
    \/ CallMain
    \/ InBody /\ \E e \in RunExprs, t \in TypeIds :
          BodyAssignment("x", e, t, FALSE, FALSE)
    \/ InBody /\ \E e \in RunExprs : BodyReassignment("x", e)
    \/ InBody /\ BodyUnexpected
    \/ InBody /\ \E e \in RunExprs \cup {NoExpr} : BodyReturn(e)
    \/ InBody /\ CanCall /\ \E n \in CallNames : BodyCall(n)
    \/ ExitCall
Spec == Init /\ [][Next]_vars_all

(* ----------------------- properties of the scopes ---------------------- *)
\* the scopes from s up to the root, nearest first
RECURSIVE ChainOf(_)
ChainOf(s) == IF parent[s] = NoParent THEN <<s>> ELSE <<s>> \o ChainOf(parent[s])

OnChain(s) == {ChainOf(s)[i] : i \in 1 .. Len(ChainOf(s))}
ConstOnChain(s, n) == \E a \in OnChain(s) : n \in DOMAIN const_vars[a]
MutOnChain(s, n) == \E a \in OnChain(s) : n \in DOMAIN vars[a]

\* the nearest scope of the chain of s that owns a mutable binding of n
MutOwner(s, n) ==
    LET c == ChainOf(s)
        i == CHOOSE i \in 1 .. Len(c) :
                /\ n \in DOMAIN vars[c[i]]
                /\ \A j \in 1 .. (i - 1) : n \notin DOMAIN vars[c[j]]
    IN  c[i]

\* a reassignment statement of the program executes, at either level
ReassignStep(n, e) == ModuleReassignment(n, e) \/ BodyReassignment(n, e)

\* C1: a reassignment of a name that is const in the current scope or in an
\* ancestor fails with CannotReassignConst, surfaced as a StatementError, and
\* changes no binding.
C1_ConstReassignmentFails ==
    [][\A e \in ScopeExprs :
         (ReassignStep("x", e) /\ Eval(e).err = "none"
            /\ ConstOnChain(active_scope, "x"))
         => /\ last'.err = "CannotReassignConst"
            /\ last'.surfaced = "StatementError"
            /\ vars' = vars
            /\ const_vars' = const_vars]_vars_all

\* C2: a reassignment of a mutable binding (of a name with no const binding in
\* sight) with a value of another type tag fails with a type mismatch and
\* changes no binding.
C2_MismatchedReassignmentFails ==
    [][\A e \in ScopeExprs :
         (ReassignStep("x", e) /\ Eval(e).err = "none"
            /\ ~ConstOnChain(active_scope, "x") /\ MutOnChain(active_scope, "x")
            /\ Eval(e).val.cls # vars[MutOwner(active_scope, "x")]["x"].cls)
         => /\ last'.err = "TypeMismatch"
            /\ vars' = vars
            /\ const_vars' = const_vars]_vars_all

\* C3: a reassignment of a name with no const binding replaces the value in
\* the nearest scope of the chain that owns a mutable binding, creating no
\* binding elsewhere, and fails with the name error only when no scope of the
\* chain owns one.
C3_ReassignmentUpdatesOwner ==
    [][\A e \in ScopeExprs :
         (ReassignStep("x", e) /\ Eval(e).err = "none"
            /\ ~ConstOnChain(active_scope, "x"))
         => /\ (MutOnChain(active_scope, "x")
                  /\ Eval(e).val.cls = vars[MutOwner(active_scope, "x")]["x"].cls)
                => /\ last'.err = "none"
                   /\ vars' = [vars EXCEPT ![MutOwner(active_scope, "x")] =
                                 Put(@, "x", Eval(e).val)]
                   /\ const_vars' = const_vars
            /\ last'.err = "NotDefined" => ~MutOnChain(active_scope, "x")]_vars_all

\* the positions of the chain of s whose scope binds n, mutable or const
Binders(s, n) ==
    {i \in 1 .. Len(ChainOf(s)) :
        n \in DOMAIN vars[ChainOf(s)[i]] \cup DOMAIN const_vars[ChainOf(s)[i]]}

\* what a lookup of n from s is to yield: the built-in type; else, from the
\* nearest scope that binds n, its mutable value, else its const value
Lookup(s, n) ==
    IF n \in DOMAIN STD_TYPES THEN STD_TYPES[n]
    ELSE IF Binders(s, n) = {} THEN NotFound
    ELSE LET i == CHOOSE i \in Binders(s, n) : \A j \in Binders(s, n) : i <= j
             a == ChainOf(s)[i]
         IN  IF n \in DOMAIN vars[a] THEN vars[a][n] ELSE const_vars[a][n]

\* C4: get_var yields the built-in type for a built-in name, else the scope's
\* own mutable value, else its own const value, else what the parent yields,
\* and raises VarNotFound exactly when the name is no built-in and no scope up
\* to the root binds it; Runner.run's lookup of main fails exactly then.
C4_LookupOrder ==
    /\ \A s \in scopes, n \in AllNames \cup DOMAIN STD_TYPES :
          get_var(s, n) = Lookup(s, n)
    /\ last.op = "entry" =>
          (last.err = "VarNotFound" <=> Binders(global_scope, "main") = {})

\* a call in a nested scope has found main, and x, through the parent links
C4_Witness ==
    /\ last.op = "call" /\ last.err = "none" /\ Len(stack) >= 3
    /\ "x" \notin DOMAIN vars[active_scope] \cup DOMAIN const_vars[active_scope]
    /\ get_var(active_scope, "x") \in LitValues
    /\ get_var(active_scope, "Integer") = STD_TYPES["Integer"]

\* n is bound, mutable or const, in a proper ancestor of s
BoundInAncestor(s, n) == \E i \in Binders(s, n) : i >= 2

\* C5: declaring in a nested scope a name bound in an ancestor succeeds and
\* binds in the nested scope only: no other scope's dicts change, a lookup from
\* the nested scope yields the new value, and lookups from the scopes that do
\* not descend from it yield what they yielded.
C5_ShadowingIsLocal ==
    [][\A e \in ScopeExprs, c \in BOOLEAN :
         (BodyAssignment("x", e, "None", c, FALSE) /\ Eval(e).err = "none"
            /\ BoundInAncestor(active_scope, "x"))
         => /\ last'.err = "none"
            /\ \A s \in scopes \ {active_scope} :
                  vars'[s] = vars[s] /\ const_vars'[s] = const_vars[s]
            /\ get_var(active_scope, "x")' = Eval(e).val
            /\ \A s \in scopes :
                  active_scope \notin OnChain(s)
                     => get_var(s, "x")' = get_var(s, "x")]_vars_all

(* ----------------------- properties of the imports --------------------- *)
\* C6: an import statement that fails leaves both dicts of every scope as
\* they were: no requested name is bound.
C6_FailedImportBindsNothing ==
    [][\A l \in ImportLists :
         (/\ \/ \E m \in ModuleNames : ModuleStdImport(m, l)
             \/ \E r \in SubRuns, e \in SubRoots : ModuleLocalImport(l, r, e)
          /\ last'.err # "none")
         => vars' = vars /\ const_vars' = const_vars]_vars_all

\* C7: a local import of a file whose program runs to its end binds, in the
\* importing scope, every requested name that the program's root binds, to
\* the same value; it fails only for a missing file or a name the root lacks.
C7_LocalImportCopiesBindings ==
    [][\A l \in ImportLists, e \in SubRoots :
         (ModuleLocalImport(l, "returned", e)
            /\ \A i \in 1 .. Len(l) : l[i] \in DOMAIN e)
         => /\ last'.err = "none"
            /\ \A i \in 1 .. Len(l) : get_var(active_scope, l[i])' = e[l[i]]]_vars_all

(* ------------------- properties of calls and returns ------------------- *)
\* C8: return state is per invocation: an activation that has not executed a
\* return finds its return flag unset, whatever the activations it called did.
C8_ReturnStatePerInvocation ==
    \A k \in 1 .. Len(stack) :
        (stack[k].func # RunFrame /\ ~stack[k].returned)
           => ~return_flag[stack[k].func]

C10_PanicExitsWith9 ==
    last.err = "Panic" => (exit_status = 9 /\ last.surfaced = "Panic")

\* C11: when the top-level statements have run and the root scope has no
\* binding of main, the run ends with status 1 and the missing-entry-point
\* diagnostic, no scope is created and no function is invoked; when main is
\* bound the run goes on to call it, and a run whose call of main completes
\* ends with status 0 in the root scope.
C11_EntryPoint ==
    /\ [](phase = "done" => (exit_status = 0 /\ active_scope = global_scope))
    /\ [][EndModule =>
            IF Binders(global_scope, "main") = {}
            THEN /\ phase' = "exit"
                 /\ exit_status' = 1
                 /\ last'.op = "entry" /\ last'.err = "VarNotFound"
                 /\ UNCHANGED <<scopes, parent, vars, const_vars, active_scope,
                                stack, return_flag, fn_return, lineno>>
            ELSE phase' = "main" /\ exit_status' = exit_status]_vars_all

\* a module body of two statements, none of which binds main, has run
C11_Witness ==
    /\ phase = "exit" /\ exit_status = 1 /\ pc = MaxModuleLen
    /\ last.op = "entry" /\ last.err = "VarNotFound"
    /\ scopes = {global_scope} /\ stack = <<>>

\* C12: a declaration with the global modifier executed in a nested scope
\* binds the name in the root scope, in the dict its const modifier selects,
\* and changes no dict of any other scope; a reassignment acts on the active
\* scope: it replaces the active scope's own mutable binding even when the
\* root scope binds the name too.
C12_GlobalDeclaration ==
    [][/\ \A n \in DeclNames, e \in ScopeExprs, c \in BOOLEAN :
            (BodyAssignment(n, e, "None", c, TRUE) /\ Eval(e).err = "none")
            => /\ last'.err = "none"
               /\ \A s \in scopes \ {global_scope} :
                     vars'[s] = vars[s] /\ const_vars'[s] = const_vars[s]
               /\ IF c
                  THEN /\ const_vars'[global_scope] =
                             Put(const_vars[global_scope], n, Eval(e).val)
                       /\ vars'[global_scope] = vars[global_scope]
                  ELSE /\ vars'[global_scope] =
                             Put(vars[global_scope], n, Eval(e).val)
                       /\ const_vars'[global_scope] = const_vars[global_scope]
       /\ \A e \in ScopeExprs :
            (/\ BodyReassignment("x", e) /\ Eval(e).err = "none"
             /\ "x" \in DOMAIN vars[active_scope]
             /\ "x" \notin DOMAIN const_vars[active_scope]
             /\ Eval(e).val.cls = vars[active_scope]["x"].cls)
            => /\ vars' = [vars EXCEPT ![active_scope] = Put(@, "x", Eval(e).val)]
               /\ const_vars' = const_vars]_vars_all

\* a global declaration of Integer, executed in a function body, has bound
\* the name in the root scope and not in the scope of the body
C12_Witness ==
    /\ phase = "main" /\ active_scope # global_scope
    /\ last.op = "assignment" /\ last.id = "Integer" /\ last.err = "none"
    /\ "Integer" \in DOMAIN const_vars[global_scope]
    /\ "Integer" \notin DOMAIN vars[active_scope] \cup DOMAIN const_vars[active_scope]

\* C13: in every scope, no name is a key of both vars and const_vars.
C13_OneDictPerName ==
    \A s \in scopes : DOMAIN vars[s] \cap DOMAIN const_vars[s] = {}

(* ------------------- properties of scope activation -------------------- *)
\* C14: entering a scope records the scope active at that moment; when scopes
\* exit, by the end of a body or by an exception that leaves several of them,
\* the active scope is again the one recorded by the outermost scope that
\* exits; no other step changes the active scope, and with no scope pending
\* the active scope is the root.
C14_ScopeStackDiscipline ==
    /\ [](stack = <<>> => active_scope = global_scope)
    /\ [][/\ (Len(stack') > Len(stack)) =>
                (/\ Len(stack') = Len(stack) + 1
                 /\ SubSeq(stack', 1, Len(stack)) = stack
                 /\ stack'[Len(stack')].old = active_scope)
          /\ (Len(stack') < Len(stack)) =>
                (active_scope' = stack[Len(stack') + 1].old)
          /\ (Len(stack') = Len(stack)) =>
                (active_scope' = active_scope)]_vars_all

\* a statement has failed in a run that entered three scopes, and the root
\* scope is active again
C14_Witness ==
    /\ phase = "exit" /\ last.err # "none"
    /\ last.op \in {"assignment", "reassignment", "return", "unexpected"}
    /\ Cardinality(scopes) = MaxScopes
    /\ stack = <<>> /\ active_scope = global_scope

\* C15: while the return flag of the running function is set, no statement
\* of its body executes: a step changes no dict of any scope, creates no
\* scope, and changes no function's return value, return type or flag, and
\* Runner.lineno does not advance.
C15_NothingAfterReturn ==
    [][(phase = "main" /\ Running # RunFrame /\ return_flag[Running])
         => UNCHANGED <<vars, const_vars, scopes, parent, fn_return,
                        return_type, return_flag, lineno>>]_vars_all

\* the running body has executed a return that completed, and the program
\* has statements still to run
C15_Witness ==
    /\ phase = "main" /\ last.op = "return" /\ last.err = "none"
    /\ Len(stack) >= 2 /\ Top.returned /\ return_flag[Running]
    /\ lineno < MaxCallLineno

(* ------------------ properties of the two dispatchers ------------------ *)
\* C16: an exception raised by a statement, at top level or in a function
\* body, leaves the dispatcher as a StatementError (errors.Panic and
\* SystemExit, which are no statement-level exceptions, set aside).
C16_StatementErrorAtBothLevels ==
    (/\ last.op \in {"assignment", "reassignment", "return", "call",
                      "unexpected", "std_import", "local_import"}
     /\ last.err \notin {"none", "Panic", "SystemExit1", "SystemExit9"})
    => last.surfaced = "StatementError"

\* C17: the registry holds the root scope and the scopes of the pending
\* invocations only: a scope leaves Runner.scopes when its body ends, so with
\* no invocation pending the registry is the root scope alone.
C17_ExitedScopesLeaveRegistry ==
    /\ Cardinality(scopes) = 1 + Len(stack)
    /\ stack = <<>> => scopes = {global_scope}

(* ------------------- properties of the built-in names ------------------ *)
\* C18: from every scope, every built-in type name resolves (get_var does
\* not raise) and is_var_assigned reports it, with or without recursion,
\* whatever has been declared; and a declaration of a built-in type name
\* completes without error.
C18_BuiltinsAlwaysVisible ==
    /\ [](\A s \in scopes, n \in DOMAIN STD_TYPES :
            /\ get_var(s, n) # NotFound
            /\ is_var_assigned(s, n, FALSE)
            /\ is_var_assigned(s, n, TRUE))
    /\ [][\A e \in ScopeExprs, c \in BOOLEAN, g \in BOOLEAN :
            (BodyAssignment("Integer", e, "None", c, g) /\ Eval(e).err = "none")
            => last'.err = "none"]_vars_all

\* a variable named Integer has been declared in the scope of a body, and
\* the name resolves there
C18_Witness ==
    /\ last.op = "assignment" /\ last.id = "Integer" /\ last.err = "none"
    /\ "Integer" \in DOMAIN vars[active_scope]
    /\ get_var(active_scope, "Integer") # NotFound

(* ------------------------ properties of return ------------------------- *)
\* C19: a return statement without an expression completes without error,
\* records a Void value as the function's return value, sets its return flag
\* and, when the return type was unset, sets it to Void.
C19_BareReturnYieldsVoid ==
    [][BodyReturn(NoExpr)
         => /\ last'.err = "none"
            /\ fn_return'[Running].cls = "Void"
            /\ return_flag'[Running]
            /\ return_type[Running] = "None" => return_type'[Running] = "Void"]_vars_all

(* --------------------- properties of the scope tree -------------------- *)
\* the root is reached from s in at most n parent links, all of them to
\* registered scopes
RECURSIVE ReachesRoot(_, _)
ReachesRoot(s, n) ==
    IF s = global_scope THEN TRUE
    ELSE IF n = 0 THEN FALSE
    ELSE parent[s] \in scopes /\ ReachesRoot(parent[s], n - 1)

\* C20: the active scope is registered, the root scope has no parent, the
\* parent links lead from every registered scope to the root without
\* visiting a scope twice (in fewer links than there are scopes), and a
\* scope that is entered is new, becomes the active scope and has the scope
\* active at its entry as its parent.
C20_ScopeTree ==
    /\ [](/\ active_scope \in scopes
          /\ global_scope \in scopes
          /\ parent[global_scope] = NoParent
          /\ DOMAIN parent = scopes /\ DOMAIN vars = scopes
          /\ DOMAIN const_vars = scopes
          /\ \A s \in scopes : ReachesRoot(s, Cardinality(scopes) - 1))
    /\ [][scopes' # scopes =>
            \E k \in scopes' \ scopes :
               /\ scopes' = scopes \cup {k}
               /\ active_scope' = k
               /\ parent' = Put(parent, k, active_scope)]_vars_all

\* three scopes are entered, one inside the other: the active scope's parent
\* is the scope of its caller, whose parent is the scope Runner.run entered
C20_Witness ==
    /\ Len(stack) = 3
    /\ parent[active_scope] \notin {global_scope, NoParent}
    /\ parent[parent[active_scope]] # global_scope
    /\ parent[parent[parent[active_scope]]] = global_scope

====
